---- MODULE Spec2Model ----
(***************************************************************************)
(* State-machine model of the standalone crawler (scraper.py: WebScraper), *)
(* of the Scrapy spider (site_spider.py: SiteSpider) and of their runner   *)
(* (run_spider.py: run_standalone / run_scrapy / main).                    *)
(*                                                                         *)
(* A URL string is modelled by its written syntax: a record                *)
(*   [scheme, auth, netloc, path, query, fragment]                         *)
(* where scheme is the text before the first ":" as written ("" if none),  *)
(* auth says whether "//" is written, path is path.split("/") and query /  *)
(* fragment are "" when absent.  Two strings are equal iff their records   *)
(* are equal.                                                              *)
(***************************************************************************)
EXTENDS Integers, Sequences, FiniteSets, TLC

\* ------------------------------------------------------------ bounds
\* Largest page budget (--max-pages) tried.
MaxBudget == 2

\* ------------------------------------------------------------ strings
\* Optional values: None, or a one-element sequence holding the value.
None == <<>>

Some(v) == <<v>>

\* The characters (code points) of every text atom the model uses.
Chars ==
  [s \in {"", "http", "https", "HTTP", "mailto", "MAILTO", "tel", "javascript",
          "a.test", "other.test", "[bad", "a@b", "x", "y", "z", "d", "p",
          "q=1", "f", "top"} |->
    CASE s = "" -> <<>>
      [] s = "http" -> <<104, 116, 116, 112>>
      [] s = "https" -> <<104, 116, 116, 112, 115>>
      [] s = "HTTP" -> <<72, 84, 84, 80>>
      [] s = "mailto" -> <<109, 97, 105, 108, 116, 111>>
      [] s = "MAILTO" -> <<77, 65, 73, 76, 84, 79>>
      [] s = "tel" -> <<116, 101, 108>>
      [] s = "javascript" -> <<106, 97, 118, 97, 115, 99, 114, 105, 112, 116>>
      [] s = "a.test" -> <<97, 46, 116, 101, 115, 116>>
      [] s = "other.test" -> <<111, 116, 104, 101, 114, 46, 116, 101, 115, 116>>
      [] s = "[bad" -> <<91, 98, 97, 100>>
      [] s = "a@b" -> <<97, 64, 98>>
      [] s = "x" -> <<120>>
      [] s = "y" -> <<121>>
      [] s = "z" -> <<122>>
      [] s = "d" -> <<100>>
      [] s = "p" -> <<112>>
      [] s = "q=1" -> <<113, 61, 49>>
      [] s = "f" -> <<102>>
      [] s = "top" -> <<116, 111, 112>>]

\* str.lower() on a scheme as written.
Lower(s) ==
  CASE s = "HTTP" -> "http"
    [] s = "MAILTO" -> "mailto"
    [] OTHER -> s

\* "/".join(segments), as characters.
RECURSIVE JoinChars(_)
JoinChars(segs) ==
  IF Len(segs) = 0 THEN <<>>
  ELSE IF Len(segs) = 1 THEN Chars[segs[1]]
  ELSE Chars[segs[1]] \o <<47>> \o JoinChars(Tail(segs))

\* The text of a URL string, character by character.
Text(u) ==
  (IF u.scheme # "" THEN Chars[u.scheme] \o <<58>> ELSE <<>>)
  \o (IF u.auth THEN <<47, 47>> \o Chars[u.netloc] ELSE <<>>)
  \o JoinChars(u.path)
  \o (IF u.query # "" THEN <<63>> \o Chars[u.query] ELSE <<>>)
  \o (IF u.fragment # "" THEN <<35>> \o Chars[u.fragment] ELSE <<>>)

\* Python's str ordering: lexicographic by code point, a prefix first.
RECURSIVE LexLess(_, _)
LexLess(a, b) ==
  IF Len(b) = 0 THEN FALSE
  ELSE IF Len(a) = 0 THEN TRUE
  ELSE IF a[1] # b[1] THEN a[1] < b[1]
  ELSE LexLess(Tail(a), Tail(b))

\* A URL string from its written parts.
Str(scheme, auth, netloc, path, query, fragment) ==
  [scheme |-> scheme, auth |-> auth, netloc |-> netloc, path |-> path,
   query |-> query, fragment |-> fragment]

\* `not s`: the empty string.
IsEmptyStr(u) ==
  u.scheme = "" /\ ~u.auth /\ u.path = <<"">> /\ u.query = "" /\ u.fragment = ""

\* path[:1] == "/"
IsAbsPath(path) == Len(path) >= 2 /\ path[1] = ""

\* path[:2] == "//"
IsDoubleSlashPath(path) == Len(path) >= 3 /\ path[1] = "" /\ path[2] = ""

\* ------------------------------------------------------------ urllib.parse
uses_relative == {"", "http", "https", "ftp", "file"}

uses_netloc == {"", "http", "https", "ftp", "file"}

\* urlparse raises ValueError on a bracketed host that is not closed.
UrlparseRaises(u) == u.netloc = "[bad"

\* urlparse(u, default_scheme): the components, the scheme lower-cased.
urlparse(u, default) ==
  [scheme |-> IF u.scheme = "" THEN default ELSE Lower(u.scheme),
   netloc |-> u.netloc, path |-> u.path, query |-> u.query,
   fragment |-> u.fragment]

\* urlunparse((scheme, netloc, path, "", query, fragment)).
urlunparse(scheme, netloc, path, query, fragment) ==
  LET auth == netloc # "" \/ (scheme # "" /\ scheme \in uses_netloc
                               /\ ~IsDoubleSlashPath(path))
      p == IF auth /\ path # <<"">> /\ ~IsAbsPath(path) THEN <<"">> \o path
           ELSE path
  IN Str(scheme, auth, netloc, p, query, fragment)

\* segments[1:-1] = filter(None, segments[1:-1])
RECURSIVE DropEmptyInner(_, _)
DropEmptyInner(segs, i) ==
  IF i > Len(segs) THEN <<>>
  ELSE IF i > 1 /\ i < Len(segs) /\ segs[i] = "" THEN DropEmptyInner(segs, i + 1)
  ELSE <<segs[i]>> \o DropEmptyInner(segs, i + 1)

\* The dot-segment loop of urljoin.
RECURSIVE ResolveDots(_, _)
ResolveDots(segs, acc) ==
  IF Len(segs) = 0 THEN acc
  ELSE IF segs[1] = ".."
    THEN ResolveDots(Tail(segs),
                     IF Len(acc) = 0 THEN acc ELSE SubSeq(acc, 1, Len(acc) - 1))
  ELSE IF segs[1] = "." THEN ResolveDots(Tail(segs), acc)
  ELSE ResolveDots(Tail(segs), Append(acc, segs[1]))

\* urljoin(base, url) for inputs urlparse accepts.
urljoin(base, url) ==
  IF IsEmptyStr(base) THEN url
  ELSE IF IsEmptyStr(url) THEN base
  ELSE
    LET b == urlparse(base, "")
        r == urlparse(url, b.scheme)
    IN IF r.scheme # b.scheme \/ r.scheme \notin uses_relative THEN url
       ELSE IF r.scheme \in uses_netloc /\ r.netloc # ""
         THEN urlunparse(r.scheme, r.netloc, r.path, r.query, r.fragment)
       ELSE
         LET netloc == IF r.scheme \in uses_netloc THEN b.netloc ELSE r.netloc
         IN IF r.path = <<"">>
              THEN urlunparse(r.scheme, netloc, b.path,
                              IF r.query = "" THEN b.query ELSE r.query,
                              r.fragment)
            ELSE
              LET base_parts == IF b.path[Len(b.path)] # ""
                                  THEN SubSeq(b.path, 1, Len(b.path) - 1)
                                ELSE b.path
                  segments == IF IsAbsPath(r.path) THEN r.path
                              ELSE DropEmptyInner(base_parts \o r.path, 1)
                  resolved == ResolveDots(segments, <<>>)
                  resolved_path ==
                    IF segments[Len(segments)] \in {".", ".."}
                      THEN Append(resolved, "") ELSE resolved
              IN urlunparse(r.scheme, netloc,
                            IF resolved_path \in {<<>>, <<"">>} THEN <<"", "">>
                            ELSE resolved_path,
                            r.query, r.fragment)

\* ------------------------------------------------------------ inputs
\* http://a.test<path>[?query][#fragment]
OnSite(path, query, fragment) == Str("http", TRUE, "a.test", path, query, fragment)

\* href values as written in the anchors of the served documents.
hRoot == Str("", FALSE, "", <<"", "">>, "", "")

hX == Str("", FALSE, "", <<"", "x">>, "", "")

hXf == Str("", FALSE, "", <<"", "x">>, "", "f")

hXq == Str("", FALSE, "", <<"", "x">>, "q=1", "")

hY == Str("", FALSE, "", <<"y">>, "", "")

hZ == Str("", FALSE, "", <<"", "z">>, "", "")

hUp == Str("", FALSE, "", <<"..", "y">>, "", "")

hTop == Str("", FALSE, "", <<"">>, "", "top")

hEmpty == Str("", FALSE, "", <<"">>, "", "")

hExt == Str("http", TRUE, "other.test", <<"", "z">>, "", "")

hHttps == Str("https", TRUE, "a.test", <<"", "x">>, "", "")

hMailto == Str("mailto", FALSE, "", <<"a@b">>, "", "")

hMAILTO == Str("MAILTO", FALSE, "", <<"a@b">>, "", "")

hBad == Str("http", TRUE, "[bad", <<"", "">>, "", "")

Hrefs == {hRoot, hX, hXf, hXq, hY, hZ, hUp, hTop, hEmpty, hExt, hHttps, hMailto,
          hMAILTO, hBad}

\* Seed URLs given on the command line.
Seeds == {OnSite(<<"", "">>, "", ""), OnSite(<<"", "d", "p">>, "", ""),
          OnSite(<<"", "">>, "", "top")}

\* A site: the anchors of the document served for <<path, query>> on a.test.
SiteA ==
  (<<<<"", "">>, "">> :> {hX, hY, hExt, hMailto, hTop, hEmpty})
  @@ (<<<<"", "x">>, "">> :> {hRoot, hX, hY, hXf})
  @@ (<<<<"", "y">>, "">> :> {hXq, hMAILTO})
  @@ (<<<<"", "d", "p">>, "">> :> {hX, hY})
  @@ (<<<<"", "d", "y">>, "">> :> {hUp, hBad})

SiteB ==
  (<<<<"", "">>, "">> :> {hX})
  @@ (<<<<"", "x">>, "">> :> {hX, hRoot, hHttps, hExt})
  @@ (<<<<"", "d", "p">>, "">> :> {hRoot, hTop, hMailto})

SiteC ==
  (<<<<"", "">>, "">> :> {hX, hY, hXq})
  @@ (<<<<"", "x">>, "">> :> {hY, hZ})
  @@ (<<<<"", "x">>, "q=1">> :> {hX, hY})
  @@ (<<<<"", "y">>, "">> :> {hXq, hRoot, hZ})

Sites == {SiteA, SiteB, SiteC}

\* The anchors of the document the renderer shows for `u`.
Document(s, u) ==
  IF <<u.path, u.query>> \in DOMAIN s THEN s[<<u.path, u.query>>] ELSE {}

\* --delay values: time.sleep raises ValueError on a negative one.
Delays == {-1, 1}

\* --max-pages: absent, or an integer.
Budgets == {None} \cup {Some(b) : b \in -1..MaxBudget}

\* ------------------------------------------------------------ state
VARIABLES
  start_url, delay, max_pages, site,   \* the invocation and the web site
  visited, to_visit, data, errors,     \* WebScraper fields
  playwright, browser, context,       \* renderer session handles
  page,                               \* the reusable page of crawl
  pc, url, page_data,                 \* control point and locals of crawl
  aborted,                            \* crawl's except branch was taken
  files, sink_errors,                 \* output files written, sinks that failed
  exit_code,                          \* process exit status
  outcomes,                           \* fetch outcome of each URL fetched so far
  run, first_data,                    \* run number, data of the first run
  engine,                             \* Scrapy engine: idle, running, closed
  fingerprints, scheduler,            \* dupefilter's seen set, pending requests
  active,                             \* requests in the downloader
  parsing,                            \* parse callbacks still yielding requests
  items,                              \* items the pipelines received
  downloads                           \* every request handed to the downloader

vars == <<start_url, delay, max_pages, site, visited, to_visit, data, errors,
          playwright, browser, context, page, pc, url, page_data, aborted,
          files, sink_errors, exit_code, outcomes, run, first_data, engine,
          fingerprints, scheduler, active, parsing, items, downloads>>

inputs == <<start_url, delay, max_pages, site>>

frontier == <<visited, to_visit, data, errors>>

session == <<playwright, browser, context>>

sinks == <<files, sink_errors>>

runs == <<run, first_data>>

spider == <<engine, fingerprints, scheduler, active, parsing, items, downloads>>

\* ------------------------------------------------------------ WebScraper helpers
\* href.startswith(('mailto:', 'tel:', 'javascript:'))
StartsWithExcluded(href) == href.scheme \in {"mailto", "tel", "javascript"}

\* A scoping test that accepts every host.
is_internal_link_AnyHost(u) == ~UrlparseRaises(u)

\* is_internal_link(url)
is_internal_link(u) ==
  IF UrlparseRaises(u) \/ UrlparseRaises(start_url) THEN FALSE
  ELSE urlparse(u, "").netloc = urlparse(start_url, "").netloc

\* A formatter that always ends the path with "/".
FormatUrl_TrailingSlash(parsed) ==
  Str(parsed.scheme, TRUE, parsed.netloc, parsed.path \o <<"">>, parsed.query, "")

\* The f-string of normalize_url, as the string it spells: with no netloc and
\* a relative path the text after "//" up to the first "/" reads as the netloc.
FormatUrl(parsed) ==
  IF parsed.netloc = "" /\ parsed.path # <<"">> /\ ~IsAbsPath(parsed.path)
    THEN Str(parsed.scheme, TRUE, parsed.path[1],
             IF Len(parsed.path) = 1 THEN <<"">> ELSE <<"">> \o Tail(parsed.path),
             parsed.query, "")
  ELSE Str(parsed.scheme, TRUE, parsed.netloc, parsed.path, parsed.query, "")

\* normalize_url(url): resolves against self.start_url; the unresolved input
\* comes back when urljoin / urlparse raise.
normalize_url(u) ==
  IF UrlparseRaises(start_url) \/ UrlparseRaises(u) THEN u
  ELSE FormatUrl(urlparse(urljoin(start_url, u), ""))

\* The href filter of scrape_page.
HrefConsidered(href) == ~IsEmptyStr(href) /\ ~StartsWithExcluded(href)

\* internal_links of scrape_page, as a set.
InternalLinks(hrefs) ==
  {n \in {normalize_url(h) : h \in {g \in hrefs : HrefConsidered(g)}} :
     is_internal_link(n)}

\* list(s): the elements of a set in an order the hash seed decides.
ListsOf(s) ==
  {l \in [1..Cardinality(s) -> s] : {l[i] : i \in 1..Cardinality(s)} = s}

\* The list left in hash order.
sorted_Omitted(l) == l

\* sorted(l) on URL strings.
sorted(l) == SortSeq(l, LAMBDA a, b : LexLess(Text(a), Text(b)))

\* A queueing loop that tests the queue only, not the visited set.
RECURSIVE Enqueue_NoVisitedCheck(_, _, _)
Enqueue_NoVisitedCheck(queue, links, seen) ==
  IF Len(links) = 0 THEN queue
  ELSE IF \A i \in 1..Len(queue) : queue[i] # links[1]
    THEN Enqueue_NoVisitedCheck(Append(queue, links[1]), Tail(links), seen)
  ELSE Enqueue_NoVisitedCheck(queue, Tail(links), seen)

\* A queueing loop that tests the visited set only, not the queue.
RECURSIVE Enqueue_NoQueueCheck(_, _, _)
Enqueue_NoQueueCheck(queue, links, seen) ==
  IF Len(links) = 0 THEN queue
  ELSE IF links[1] \notin seen
    THEN Enqueue_NoQueueCheck(Append(queue, links[1]), Tail(links), seen)
  ELSE Enqueue_NoQueueCheck(queue, Tail(links), seen)

\* The for loop of crawl that queues the links of a scraped page.
RECURSIVE Enqueue(_, _, _)
Enqueue(queue, links, seen) ==
  IF Len(links) = 0 THEN queue
  ELSE IF links[1] \notin seen /\ \A i \in 1..Len(queue) : queue[i] # links[1]
    THEN Enqueue(Append(queue, links[1]), Tail(links), seen)
  ELSE Enqueue(queue, Tail(links), seen)

\* A while condition that stops one page late.
LoopCondition_OffByOne ==
  to_visit # <<>> /\ (IF max_pages = None THEN TRUE ELSE Len(data) <= max_pages[1])

\* The while condition of crawl.
LoopCondition ==
  to_visit # <<>> /\ (IF max_pages = None THEN TRUE ELSE Len(data) < max_pages[1])

\* ------------------------------------------------------------ construction
\* WebScraper.__init__ as called by run_standalone.
Construct ==
  /\ visited = {}
  /\ to_visit = <<start_url>>
  /\ data = <<>>
  /\ errors = <<>>
  /\ playwright = "None"
  /\ browser = "None"
  /\ context = "None"
  /\ page = "None"
  /\ pc = "crawl"
  /\ url = None
  /\ page_data = None
  /\ aborted = FALSE
  /\ files = [xlsx |-> None, json |-> None, errors |-> None]
  /\ sink_errors = {}
  /\ exit_code = None

\* The Scrapy engine before process.start(): nothing scheduled or fetched.
SpiderConstruct ==
  /\ engine = "idle"
  /\ fingerprints = {}
  /\ scheduler = <<>>
  /\ active = {}
  /\ parsing = {}
  /\ items = <<>>
  /\ downloads = <<>>

Init ==
  /\ start_url \in Seeds
  /\ delay \in Delays
  /\ max_pages \in Budgets
  /\ site \in Sites
  /\ Construct
  /\ outcomes = <<>>
  /\ run = 1
  /\ first_data = <<>>
  /\ SpiderConstruct

\* ------------------------------------------------------------ crawl
\* crawl: start_browser() succeeds; control enters the try block.
StartBrowser ==
  /\ pc = "crawl"
  /\ playwright' = "open"
  /\ browser' = "open"
  /\ context' = "open"
  /\ pc' = "new_page"
  /\ UNCHANGED <<spider, inputs, frontier, page, url, page_data, aborted, sinks,
                 exit_code, outcomes, runs>>

\* crawl: start_browser() raises at its step `failed` (1: sync_playwright().start(),
\* 2: chromium.launch, 3: new_context); the call is outside the try block, so
\* the exception leaves crawl and run_standalone.
StartBrowserRaises ==
  /\ pc = "crawl"
  /\ \E failed \in 1..3 :
       /\ playwright' = IF failed > 1 THEN "open" ELSE "None"
       /\ browser' = IF failed > 2 THEN "open" ELSE "None"
  /\ context' = "None"
  /\ pc' = "raised"
  /\ UNCHANGED <<spider, inputs, frontier, page, url, page_data, aborted, sinks,
                 exit_code, outcomes, runs>>

\* crawl: page = self.context.new_page()
NewPage ==
  /\ pc = "new_page"
  /\ page' = "open"
  /\ pc' = "loop"
  /\ UNCHANGED <<spider, inputs, frontier, session, url, page_data, aborted, sinks,
                 exit_code, outcomes, runs>>

\* crawl: new_page() raises inside the try block; the except branch logs it.
NewPageRaises ==
  /\ pc = "new_page"
  /\ aborted' = TRUE
  /\ pc' = "finally"
  /\ UNCHANGED <<spider, inputs, frontier, session, page, url, page_data, sinks,
                 exit_code, outcomes, runs>>

\* A dequeue that reads the head without removing it.
Dequeue_NoPop ==
  /\ pc = "loop"
  /\ to_visit # <<>> /\ (IF max_pages = None THEN TRUE ELSE Len(data) < max_pages[1])
  /\ url' = Some(Head(to_visit))
  /\ to_visit' = to_visit
  /\ IF Head(to_visit) \in visited
       THEN /\ pc' = "loop"
            /\ visited' = visited
       ELSE /\ pc' = "scrape"
            /\ visited' = visited \cup {Head(to_visit)}
  /\ UNCHANGED <<spider, start_url, delay, max_pages, site, data, errors, playwright,
                 browser, context, page, page_data, aborted, files, sink_errors,
                 exit_code, outcomes, run, first_data>>

\* A dequeue that pops the tail of the list (to_visit.pop()).
Dequeue_Lifo ==
  /\ pc = "loop"
  /\ to_visit # <<>> /\ (IF max_pages = None THEN TRUE ELSE Len(data) < max_pages[1])
  /\ url' = Some(to_visit[Len(to_visit)])
  /\ to_visit' = SubSeq(to_visit, 1, Len(to_visit) - 1)
  /\ IF to_visit[Len(to_visit)] \in visited
       THEN /\ pc' = "loop"
            /\ visited' = visited
       ELSE /\ pc' = "scrape"
            /\ visited' = visited \cup {to_visit[Len(to_visit)]}
  /\ UNCHANGED <<spider, start_url, delay, max_pages, site, data, errors, playwright,
                 browser, context, page, page_data, aborted, files, sink_errors,
                 exit_code, outcomes, run, first_data>>

\* crawl: the while test is true; pop the head, skip it if visited, else mark it.
Dequeue ==
  /\ pc = "loop"
  /\ LoopCondition
  /\ url' = Some(Head(to_visit))
  /\ to_visit' = Tail(to_visit)
  /\ IF Head(to_visit) \in visited
       THEN /\ pc' = "loop"
            /\ visited' = visited
       ELSE /\ pc' = "scrape"
            /\ visited' = visited \cup {Head(to_visit)}
  /\ UNCHANGED <<spider, inputs, data, errors, session, page, page_data, aborted, sinks,
                 exit_code, outcomes, runs>>

\* crawl: the while test is false; the loop ends.
LoopExit ==
  /\ pc = "loop"
  /\ ~LoopCondition
  /\ pc' = "finally"
  /\ UNCHANGED <<spider, inputs, frontier, session, page, url, page_data, aborted, sinks,
                 exit_code, outcomes, runs>>

\* The renderer's answer for a URL: the one it gave before, else either.
FetchOutcomes(u) ==
  IF u \in DOMAIN outcomes THEN {outcomes[u]} ELSE BOOLEAN

\* scrape_page, try block: the page loads and its record is built.
ScrapePageOk ==
  /\ pc = "scrape"
  /\ TRUE \in FetchOutcomes(url[1])
  /\ outcomes' = (url[1] :> TRUE) @@ outcomes
  /\ \E l \in ListsOf(InternalLinks(Document(site, url[1]))) :
       page_data' = Some([url |-> url[1], internal_links |-> sorted(l)])
  /\ errors' = errors
  /\ pc' = "collect"
  /\ UNCHANGED <<spider, inputs, visited, to_visit, data, session, page, url, aborted,
                 sinks, exit_code, runs>>

\* A scrape_page without its except block: the fetch error reaches crawl.
ScrapePageFails_Raises ==
  /\ pc = "scrape"
  /\ (IF url[1] \in DOMAIN outcomes THEN ~outcomes[url[1]] ELSE TRUE)
  /\ outcomes' = (url[1] :> FALSE) @@ outcomes
  /\ aborted' = TRUE
  /\ page_data' = None
  /\ pc' = "finally"
  /\ UNCHANGED <<spider, start_url, delay, max_pages, site, visited, to_visit, data,
                 errors, playwright, browser, context, page, url, files,
                 sink_errors, exit_code, run, first_data>>

\* scrape_page, except block: the error is recorded and None returned.
ScrapePageFails ==
  /\ pc = "scrape"
  /\ FALSE \in FetchOutcomes(url[1])
  /\ outcomes' = (url[1] :> FALSE) @@ outcomes
  /\ errors' = Append(errors, [url |-> url[1]])
  /\ page_data' = None
  /\ pc' = "collect"
  /\ UNCHANGED <<spider, inputs, visited, to_visit, data, session, page, url, aborted,
                 sinks, exit_code, runs>>

\* A loop body that goes back to the while test at once after a failed page.
Collect_SkipsDelay ==
  /\ pc = "collect"
  /\ IF page_data # None
       THEN /\ data' = Append(data, page_data[1])
            /\ to_visit' = Enqueue(to_visit, page_data[1].internal_links, visited)
            /\ pc' = "sleep"
       ELSE /\ data' = data
            /\ to_visit' = to_visit
            /\ pc' = "loop"
  /\ UNCHANGED <<spider, start_url, delay, max_pages, site, visited, errors, playwright,
                 browser, context, page, url, page_data, aborted, files,
                 sink_errors, exit_code, outcomes, run, first_data>>

\* crawl: `if page_data:` appends the record and queues its new links.
Collect ==
  /\ pc = "collect"
  /\ IF page_data # None
       THEN /\ data' = Append(data, page_data[1])
            /\ to_visit' = Enqueue(to_visit, page_data[1].internal_links, visited)
       ELSE /\ data' = data
            /\ to_visit' = to_visit
  /\ pc' = "sleep"
  /\ UNCHANGED <<spider, inputs, visited, errors, session, page, url, page_data, aborted,
                 sinks, exit_code, outcomes, runs>>

\* A crawl without its except and finally blocks: the ValueError leaves crawl.
Sleep_Propagates ==
  /\ pc = "sleep"
  /\ pc' = IF delay < 0 THEN "raised" ELSE "loop"
  /\ UNCHANGED <<spider, start_url, delay, max_pages, site, visited, to_visit, data,
                 errors, playwright, browser, context, page, url, page_data,
                 aborted, files, sink_errors, exit_code, outcomes, run, first_data>>

\* crawl: time.sleep(self.delay); a negative delay raises ValueError, which
\* the except branch of crawl logs.
Sleep ==
  /\ pc = "sleep"
  /\ IF delay < 0
       THEN /\ aborted' = TRUE
            /\ pc' = "finally"
       ELSE /\ aborted' = aborted
            /\ pc' = "loop"
  /\ UNCHANGED <<spider, inputs, frontier, session, page, url, page_data, sinks,
                 exit_code, outcomes, runs>>

\* A handle after close() / stop(), which stop_browser calls when it is set.
Closed(handle) == IF handle # "None" THEN "closed" ELSE handle

\* crawl: the finally block calls stop_browser, then crawl returns.
Finally ==
  /\ pc = "finally"
  /\ context' = Closed(context)
  /\ browser' = Closed(browser)
  /\ playwright' = Closed(playwright)
  /\ pc' = "save_xlsx"
  /\ UNCHANGED <<spider, inputs, frontier, page, url, page_data, aborted, sinks,
                 exit_code, outcomes, runs>>

\* ------------------------------------------------------------ sinks and exit
\* The URL column of the records.
Urls(records) == [i \in 1..Len(records) |-> records[i].url]

\* A save_to_xlsx without its except block: the write error leaves the sink.
SaveToXlsx_Raises ==
  /\ pc = "save_xlsx"
  /\ \E written \in BOOLEAN :
       IF written
         THEN /\ files' = [files EXCEPT !.xlsx = Some(Urls(data))]
              /\ sink_errors' = sink_errors
              /\ pc' = "save_json"
         ELSE /\ files' = files
              /\ sink_errors' = sink_errors \cup {"xlsx"}
              /\ pc' = "raised"
  /\ UNCHANGED <<spider, start_url, delay, max_pages, site, visited, to_visit, data,
                 errors, playwright, browser, context, page, url, page_data,
                 aborted, exit_code, outcomes, run, first_data>>

\* save_to_xlsx: one row per record; a failed write is logged.
SaveToXlsx ==
  /\ pc = "save_xlsx"
  /\ \E written \in BOOLEAN :
       IF written
         THEN /\ files' = [files EXCEPT !.xlsx = Some(Urls(data))]
              /\ sink_errors' = sink_errors
         ELSE /\ files' = files
              /\ sink_errors' = sink_errors \cup {"xlsx"}
  /\ pc' = "save_json"
  /\ UNCHANGED <<spider, inputs, frontier, session, page, url, page_data, aborted,
                 exit_code, outcomes, runs>>

\* save_to_json: one object per record; a failed write is logged.
SaveToJson ==
  /\ pc = "save_json"
  /\ \E written \in BOOLEAN :
       IF written
         THEN /\ files' = [files EXCEPT !.json = Some(Urls(data))]
              /\ sink_errors' = sink_errors
         ELSE /\ files' = files
              /\ sink_errors' = sink_errors \cup {"json"}
  /\ pc' = "save_errors"
  /\ UNCHANGED <<spider, inputs, frontier, session, page, url, page_data, aborted,
                 exit_code, outcomes, runs>>

\* save_errors: writes the error records when there are any.
SaveErrors ==
  /\ pc = "save_errors"
  /\ \E written \in BOOLEAN :
       IF errors = <<>>
         THEN /\ files' = files
              /\ sink_errors' = sink_errors
       ELSE IF written
         THEN /\ files' = [files EXCEPT !.errors = Some(Urls(errors))]
              /\ sink_errors' = sink_errors
       ELSE /\ files' = files
            /\ sink_errors' = sink_errors \cup {"errors"}
  /\ pc' = "returned"
  /\ UNCHANGED <<spider, inputs, frontier, session, page, url, page_data, aborted,
                 exit_code, outcomes, runs>>

\* main: run_standalone returned; the process ends with status 0.
MainReturns ==
  /\ pc = "returned"
  /\ exit_code' = Some(0)
  /\ pc' = "exit"
  /\ UNCHANGED <<spider, inputs, frontier, session, page, url, page_data, aborted, sinks,
                 outcomes, runs>>

\* main: `except Exception` prints the error and calls sys.exit(1).
MainExcept ==
  /\ pc = "raised"
  /\ exit_code' = Some(1)
  /\ pc' = "exit"
  /\ UNCHANGED <<spider, inputs, frontier, session, page, url, page_data, aborted, sinks,
                 outcomes, runs>>

\* One step of the run.  ScrapePageFails stands before ScrapePageOk so that
\* ENABLED Next is decided without enumerating the orders of a link set.
Next ==
  \/ StartBrowser
  \/ StartBrowserRaises
  \/ NewPage
  \/ NewPageRaises
  \/ Dequeue
  \/ LoopExit
  \/ ScrapePageFails
  \/ ScrapePageOk
  \/ Collect
  \/ Sleep
  \/ Finally
  \/ SaveToXlsx
  \/ SaveToJson
  \/ SaveErrors
  \/ MainReturns
  \/ MainExcept

Spec == Init /\ [][Next]_vars

\* The program is sequential: whatever statement is next is executed.
FairSpec == Spec /\ WF_vars(Next)

\* The same command run a second time against the same site.
Rerun ==
  /\ pc = "exit"
  /\ run = 1
  /\ page = "open"
  /\ run' = 2
  /\ first_data' = data
  /\ visited' = {}
  /\ to_visit' = <<start_url>>
  /\ data' = <<>>
  /\ errors' = <<>>
  /\ playwright' = "None"
  /\ browser' = "None"
  /\ context' = "None"
  /\ page' = "None"
  /\ pc' = "crawl"
  /\ url' = None
  /\ page_data' = None
  /\ aborted' = FALSE
  /\ files' = [xlsx |-> None, json |-> None, errors |-> None]
  /\ sink_errors' = {}
  /\ exit_code' = None
  /\ UNCHANGED <<spider, inputs, outcomes>>

NextRuns == Next \/ Rerun

SpecRuns == Init /\ [][NextRuns]_vars

\* ------------------------------------------------------------ SiteSpider.parse
\* urldefrag(u)[0]
urldefrag(u) ==
  IF u.fragment = "" THEN u
  ELSE LET q == urlparse(u, "")
       IN urlunparse(q.scheme, q.netloc, q.path, q.query, "")

\* The hrefs SiteSpider.parse keeps: not empty, no excluded prefix.
SpiderConsidered(href) == ~IsEmptyStr(href) /\ ~StartsWithExcluded(href)

\* internal_links of SiteSpider.parse for a response: every kept href, joined
\* to the response URL and defragmented, whose netloc is empty or the response's.
SpiderInternalLinks(response_url, hrefs) ==
  IF \E h \in hrefs : SpiderConsidered(h) /\ UrlparseRaises(h) THEN {}
  ELSE {n \in {urldefrag(urljoin(response_url, h)) :
                 h \in {g \in hrefs : SpiderConsidered(g)}} :
          ~(n.netloc # "" /\ n.netloc # response_url.netloc)}

\* ------------------------------------------------------------ SiteSpider run
\* CONCURRENT_REQUESTS of run_scrapy: the requests the downloader holds at once.
CONCURRENT_REQUESTS == 4

\* What the scheduler's duplicate filter compares: the URL without fragment.
request_fingerprint(u) == [u EXCEPT !.fragment = ""]

\* SiteSpider.__init__: allowed_domains = [urlparse(start_url).netloc]
allowed_domains == {urlparse(start_url, "").netloc}

\* scrapy.Request(url) raises ValueError when the URL has no "://".
RequestRaises(u) == ~(u.scheme # "" /\ u.auth)

\* response.urljoin(href) raises in the links loop of parse.
ParseRaises(response_url, hrefs) ==
  \E h \in hrefs : SpiderConsidered(h) /\ UrlparseRaises(h)

\* The request yielded for `u` reaches the scheduler: an off-site request is
\* dropped, one whose fingerprint was seen is dropped, any other is queued.
Schedule(u, seen, queue) ==
  IF urlparse(u, "").netloc \notin allowed_domains \/ request_fingerprint(u) \in seen
    THEN [seen |-> seen, queue |-> queue]
  ELSE [seen |-> seen \cup {request_fingerprint(u)}, queue |-> Append(queue, u)]

\* process.start(): start_requests yields the request for the seed.
SpiderStartRequests ==
  /\ engine = "idle"
  /\ engine' = "running"
  /\ fingerprints' = Schedule(start_url, fingerprints, scheduler).seen
  /\ scheduler' = Schedule(start_url, fingerprints, scheduler).queue
  /\ UNCHANGED <<inputs, frontier, session, page, pc, url, page_data, aborted,
                 sinks, exit_code, outcomes, runs, active, parsing, items,
                 downloads>>

\* The engine hands the newest pending request to the downloader while the
\* downloader holds fewer than CONCURRENT_REQUESTS.
SpiderDownload ==
  /\ engine = "running"
  /\ scheduler # <<>>
  /\ Cardinality(active) < CONCURRENT_REQUESTS
  /\ scheduler' = SubSeq(scheduler, 1, Len(scheduler) - 1)
  /\ active' = active \cup {scheduler[Len(scheduler)]}
  /\ downloads' = Append(downloads, scheduler[Len(scheduler)])
  /\ UNCHANGED <<inputs, frontier, session, page, pc, url, page_data, aborted,
                 sinks, exit_code, outcomes, runs, engine, fingerprints, parsing,
                 items>>

\* A download fails: with RETRY_ENABLED False and no errback the request ends.
SpiderDownloadFails ==
  /\ \E u \in active :
       /\ FALSE \in FetchOutcomes(u)
       /\ outcomes' = (u :> FALSE) @@ outcomes
       /\ active' = active \ {u}
  /\ UNCHANGED <<inputs, frontier, session, page, pc, url, page_data, aborted,
                 sinks, exit_code, runs, engine, fingerprints, scheduler, parsing,
                 items, downloads>>

\* A response arrives and parse runs up to its item: the item goes to the
\* pipelines and the follow loop starts over set(internal_links), in the
\* order the hash seed gives; a ValueError in the links loop ends the callback
\* before anything is yielded.
SpiderParse ==
  /\ \E u \in active :
       /\ TRUE \in FetchOutcomes(u)
       /\ outcomes' = (u :> TRUE) @@ outcomes
       /\ active' = active \ {u}
       /\ IF ParseRaises(u, Document(site, u))
            THEN /\ items' = items
                 /\ parsing' = parsing
            ELSE \E l \in ListsOf(SpiderInternalLinks(u, Document(site, u))) :
                   /\ items' = Append(items, [url |-> u, internal_links |-> sorted(l)])
                   /\ parsing' = IF l = <<>> THEN parsing
                                 ELSE parsing \cup {[url |-> u, follows |-> l]}
  /\ UNCHANGED <<inputs, frontier, session, page, pc, url, page_data, aborted,
                 sinks, exit_code, runs, engine, fingerprints, scheduler,
                 downloads>>

\* A follow loop whose requests carry dont_filter=True: the scheduler queues
\* them without asking the duplicate filter.
SpiderFollow_DontFilter ==
  /\ \E p \in parsing :
       LET href == Head(p.follows)
           rest == Tail(p.follows)
       IN IF RequestRaises(href)
            THEN /\ parsing' = parsing \ {p}
                 /\ scheduler' = scheduler
          ELSE /\ parsing' = (parsing \ {p}) \cup
                              (IF rest = <<>> THEN {} ELSE {[p EXCEPT !.follows = rest]})
               /\ scheduler' = Append(scheduler, href)
  /\ fingerprints' = fingerprints
  /\ UNCHANGED <<start_url, delay, max_pages, site, visited, to_visit, data,
                 errors, playwright, browser, context, page, pc, url, page_data,
                 aborted, files, sink_errors, exit_code, outcomes, run,
                 first_data, engine, active, items, downloads>>

\* One round of the follow loop of a running parse callback: response.follow
\* builds the request (a URL without "://" raises and ends the callback) and
\* the engine schedules it.
SpiderFollow ==
  /\ \E p \in parsing :
       LET href == Head(p.follows)
           rest == Tail(p.follows)
       IN IF RequestRaises(href)
            THEN /\ parsing' = parsing \ {p}
                 /\ fingerprints' = fingerprints
                 /\ scheduler' = scheduler
          ELSE /\ parsing' = (parsing \ {p}) \cup
                              (IF rest = <<>> THEN {} ELSE {[p EXCEPT !.follows = rest]})
               /\ fingerprints' = Schedule(href, fingerprints, scheduler).seen
               /\ scheduler' = Schedule(href, fingerprints, scheduler).queue
  /\ UNCHANGED <<inputs, frontier, session, page, pc, url, page_data, aborted,
                 sinks, exit_code, outcomes, runs, engine, active, items,
                 downloads>>

\* Nothing is pending, downloading or parsing: the spider closes and
\* process.start() returns.
SpiderClose ==
  /\ engine = "running"
  /\ scheduler = <<>>
  /\ active = {}
  /\ parsing = {}
  /\ engine' = "closed"
  /\ UNCHANGED <<inputs, frontier, session, page, pc, url, page_data, aborted,
                 sinks, exit_code, outcomes, runs, fingerprints, scheduler,
                 active, parsing, items, downloads>>

\* One step of the Scrapy run.  SpiderDownloadFails stands before SpiderParse
\* for the same reason as in Next.
SpiderNext ==
  \/ SpiderStartRequests
  \/ SpiderDownload
  \/ SpiderDownloadFails
  \/ SpiderParse
  \/ SpiderFollow
  \/ SpiderClose

\* run_scrapy on a seed and a site.
SpiderInit ==
  /\ start_url \in Seeds
  /\ delay = 1
  /\ max_pages = None
  /\ site \in Sites
  /\ Construct
  /\ outcomes = <<>>
  /\ run = 1
  /\ first_data = <<>>
  /\ SpiderConstruct

SpiderSpec == SpiderInit /\ [][SpiderNext]_vars

\* Both backends on the same seed and site: run_scrapy is started once an
\* unbudgeted run_standalone has ended with no failed page, abort or write.
SpiderAfterStandalone ==
  /\ pc = "exit"
  /\ exit_code = Some(0)
  /\ max_pages = None
  /\ ~aborted
  /\ errors = <<>>
  /\ sink_errors = {}
  /\ SpiderStartRequests

NextVariants ==
  \/ Next
  \/ SpiderAfterStandalone
  \/ SpiderDownload
  \/ SpiderDownloadFails
  \/ SpiderParse
  \/ SpiderFollow
  \/ SpiderClose

SpecVariants == Init /\ [][NextVariants]_vars

\* ------------------------------------------------------------ claims
Range(seq) == {seq[i] : i \in 1..Len(seq)}

\* crawl has returned to run_standalone.
CrawlReturned == pc \in {"save_xlsx", "save_json", "save_errors", "returned"}
                 \/ (pc = "exit" /\ exit_code = Some(0))

\* C1: when crawl returns with a page budget B >= 0, len(data) <= B, and the
\* number of visited URLs is len(data) + len(errors).
C1_BudgetAndAccounting ==
  CrawlReturned =>
    /\ (max_pages # None /\ max_pages[1] >= 0 => Len(data) <= max_pages[1])
    /\ Cardinality(visited) = Len(data) + Len(errors)

\* C1 witness: crawl returned with the budget of 2 exhausted, a failed page
\* recorded and URLs still pending.
C1_Witness ==
  /\ CrawlReturned
  /\ max_pages = Some(2)
  /\ Len(data) = 2
  /\ errors # <<>>
  /\ to_visit # <<>>

\* The number of records of `records` for URL u.
CountFor(records, u) == Cardinality({i \in 1..Len(records) : records[i].url = u})

\* C2: a failed fetch appends exactly one ErrorRecord for the URL, produces no
\* PageRecord, enqueues nothing, and control goes on to the delay and back to
\* the loop test.
C2_FailureRecordedLoopContinues ==
  /\ [](\A u \in DOMAIN outcomes :
          ~outcomes[u] => CountFor(errors, u) = 1 /\ CountFor(data, u) = 0)
  /\ [][/\ (pc = "scrape" /\ url[1] \in DOMAIN outcomes' /\ ~outcomes'[url[1]]
             => /\ errors' = Append(errors, [url |-> url[1]])
                /\ data' = data
                /\ to_visit' = to_visit
                /\ pc' = "collect")
        /\ (pc = "collect" /\ page_data = None
             => data' = data /\ to_visit' = to_visit /\ errors' = errors
                /\ pc' = "sleep")
        /\ (pc = "sleep" /\ delay >= 0 => pc' = "loop")]_vars

\* C2 witness: a page has just been scraped successfully after an earlier
\* fetch failed.
C2_Witness ==
  /\ pc = "collect"
  /\ page_data # None
  /\ errors # <<>>

\* C3: every URL visited, pending or being fetched has the netloc of the seed.
C3_SameHostOnly ==
  \A u \in visited \cup Range(to_visit) \cup Range(url) :
    u.netloc = start_url.netloc

\* C3 witness: a page carrying a link to another host has been scraped and
\* its same-host links are pending.
C3_Witness ==
  /\ pc = "sleep"
  /\ page_data # None
  /\ hExt \in Document(site, url[1])
  /\ to_visit # <<>>

\* The states in which the while loop of crawl is to end.
ExitCondition ==
  to_visit = <<>> \/ (max_pages # None /\ Len(data) >= max_pages[1])

\* C4: the run terminates; once the loop is entered (with a delay that
\* time.sleep accepts) it reaches its end with pending empty or the budget
\* reached, and the loop test leaves the loop in exactly those states.
C4_CrawlTerminates ==
  /\ <>(pc = "exit")
  /\ [](pc = "loop" /\ delay >= 0
         => <>(pc = "finally" /\ ~aborted /\ ExitCondition))
  /\ [][pc = "loop" => (pc' = "finally" <=> ExitCondition)]_vars

\* C4 witness: an unbudgeted crawl of the site with a self-link and a cycle
\* has left the loop with pending empty.
C4_Witness ==
  /\ pc = "finally"
  /\ ~aborted
  /\ site = SiteB
  /\ max_pages = None
  /\ to_visit = <<>>
  /\ Len(data) >= 2

\* crawl is over: it returned or it raised.
CrawlOver == CrawlReturned \/ pc \in {"raised", "exit"}

\* C5: on every exit path of crawl the renderer session is closed, and after
\* an abort by time.sleep the record of the page just processed is still held.
C5_SessionReleasedOnEveryExit ==
  CrawlOver =>
    /\ playwright # "open"
    /\ browser # "open"
    /\ context # "open"
    /\ (aborted /\ page = "open" => Len(data) + Len(errors) >= 1)

\* A relative href resolved against `base`, in canonical form.
ResolveAgainst(base, href) ==
  IF UrlparseRaises(base) \/ UrlparseRaises(href) THEN href
  ELSE FormatUrl(urlparse(urljoin(base, href), ""))

\* C6: the internal links recorded for a page are its hrefs resolved against
\* the URL of that page.
C6_ResolvedAgainstReferrer ==
  \A i \in 1..Len(data) :
    Range(data[i].internal_links) =
      {n \in {ResolveAgainst(data[i].url, h) :
                h \in {g \in Document(site, data[i].url) : HrefConsidered(g)}} :
         is_internal_link(n)}

\* C7: the second run of the same command on the same site, with the same
\* fetch outcomes, ends with the same sequence of PageRecords as the first.
C7_SameRecordsOnRerun ==
  run = 2 /\ pc = "exit" /\ page = "open" => data = first_data

\* C7 witness: a second run has ended after scraping three pages or more.
C7_Witness ==
  /\ run = 2
  /\ pc = "exit"
  /\ page = "open"
  /\ Len(data) >= 3
  /\ \E i \in 1..Len(data) : Len(data[i].internal_links) >= 2

\* An href whose scheme is mailto, tel or javascript.
NonNavigable(href) == Lower(href.scheme) \in {"mailto", "tel", "javascript"}

\* C8: on every scraped page, an href with scheme mailto, tel or javascript
\* is dropped before normalization by WebScraper, and is in neither
\* variant's internal links nor in the frontier.
C8_NonNavigableExcluded ==
  \A i \in 1..Len(data) :
    \A h \in Document(site, data[i].url) :
      NonNavigable(h) =>
        /\ ~HrefConsidered(h)
        /\ h \notin SpiderInternalLinks(data[i].url, Document(site, data[i].url))
        /\ \A u \in visited \cup Range(to_visit) : ~NonNavigable(u)

Flushed(file, records) == file = None \/ file = Some(Urls(records))

\* C10 as stated: a run whose loop was aborted ends with a non-zero exit
\* status after flushing; one with per-page failures only ends with zero.
C10_AbortExitsNonZero ==
  pc = "exit" /\ page = "open" =>
    /\ Flushed(files.xlsx, data) /\ Flushed(files.json, data)
    /\ (aborted => exit_code # Some(0))
    /\ (~aborted => exit_code = Some(0))

\* C10 amended: a run that entered the try block of crawl ends with exit
\* status 0 whether or not the loop was aborted, each sink that wrote having
\* written the records collected; status 1 is the end of a run whose
\* start_browser raised.
C10_AbortFlushesExitZero ==
  pc = "exit" =>
    /\ (exit_code = Some(1) <=> context = "None")
    /\ (context # "None" =>
          /\ exit_code = Some(0)
          /\ Flushed(files.xlsx, data) /\ Flushed(files.json, data)
          /\ Flushed(files.errors, errors)
          /\ ("xlsx" \notin sink_errors => files.xlsx = Some(Urls(data)))
          /\ ("json" \notin sink_errors => files.json = Some(Urls(data))))

\* C10 witness: the loop was aborted after a page was scraped, the records
\* were written and the process ended with status 0.
C10_Witness ==
  /\ pc = "exit"
  /\ aborted
  /\ Len(data) >= 1
  /\ files.xlsx = Some(Urls(data))
  /\ files.json = Some(Urls(data))
  /\ exit_code = Some(0)

\* A sink was invoked: it wrote its file or logged its failure.
Invoked(sink) == files[sink] # None \/ sink \in sink_errors

\* C11: a sink whose write fails returns normally: the tabular, structured
\* and error sinks run in that order whatever the earlier ones did, the run
\* ends with status 0, and no sink call changes the records or the errors.
C11_SinkFailureContained ==
  /\ [][/\ (pc = "save_xlsx" => pc' = "save_json" /\ Invoked("xlsx")')
        /\ (pc = "save_json" => pc' = "save_errors" /\ Invoked("json")')
        /\ (pc = "save_errors"
             => pc' = "returned" /\ (errors # <<>> => Invoked("errors")'))
        /\ (pc \in {"save_xlsx", "save_json", "save_errors"}
             => frontier' = frontier /\ exit_code' = exit_code)]_vars
  /\ [](pc = "exit" /\ sink_errors # {} => exit_code = Some(0))

\* C11 witness: the tabular write failed, and the structured and error sinks
\* then wrote the records and the errors collected.
C11_Witness ==
  /\ pc = "returned"
  /\ "xlsx" \in sink_errors
  /\ data # <<>>
  /\ errors # <<>>
  /\ files.json = Some(Urls(data))
  /\ files.errors = Some(Urls(errors))

\* C12: after a crawl that collected no PageRecord, the tabular and the
\* structured sink have written no file and reported no error.
C12_ZeroRecordsNoOp ==
  pc \in {"save_errors", "returned"} /\ data = <<>> =>
    /\ files.xlsx = None
    /\ files.json = None
    /\ sink_errors \cap {"xlsx", "json"} = {}

\* C13: between the steps of the loop, visited and pending are disjoint; the
\* URL popped from the head of pending is not in visited, so the dequeue
\* step never takes its skip branch and always goes on to the fetch.
C13_VisitedPendingDisjoint ==
  /\ [](visited \cap Range(to_visit) = {})
  /\ [][pc = "loop" /\ to_visit' # to_visit
          => /\ Head(to_visit) \notin visited
             /\ Head(to_visit) \in visited'
             /\ pc' = "scrape"]_vars

\* C13 witness: a scraped page that links to a URL already visited has been
\* collected, and other URLs are pending.
C13_Witness ==
  /\ pc = "sleep"
  /\ page_data # None
  /\ \E i \in 1..Len(page_data[1].internal_links) :
       page_data[1].internal_links[i] \in visited \ {url[1]}
  /\ to_visit # <<>>

\* The URLs fetched so far in this run, with a record or an error each.
Fetched == Range(Urls(data)) \cup Range(Urls(errors))

\* C14: pending holds no URL twice; every URL has at most one record or
\* error; a URL appended to pending was neither visited nor pending; visited
\* never loses a URL; and the URL handed to the fetch was never fetched before.
C14_EnqueuedAndFetchedOnce ==
  /\ [](\A i, j \in 1..Len(to_visit) : to_visit[i] = to_visit[j] => i = j)
  /\ [](\A u \in Fetched : /\ CountFor(data, u) + CountFor(errors, u) = 1
                           /\ u \in visited
                           /\ u \notin Range(to_visit))
  /\ [][/\ visited \subseteq visited'
        /\ \A u \in Range(to_visit') \ Range(to_visit) :
             u \notin visited /\ u \notin Fetched
        /\ (pc' = "scrape" => url'[1] \notin DOMAIN outcomes \cup Fetched)]_vars

\* C14 witness: the page just collected links to a URL whose fetch failed
\* earlier and to a URL that an earlier page put in pending, still there.
C14_Witness ==
  /\ pc = "sleep"
  /\ page_data # None
  /\ \E u \in Range(page_data[1].internal_links) :
       u \in Range(Urls(errors))
  /\ \E u \in Range(page_data[1].internal_links) :
       /\ u \in Range(to_visit)
       /\ \E i \in 1..(Len(data) - 1) : u \in Range(data[i].internal_links)

\* The URLs discovered so far.
Discovered == visited \cup Range(to_visit)

\* The links recorded for u by the pages scraped so far.
LinksOf(u) ==
  UNION {Range(data[i].internal_links) : i \in {j \in 1..Len(data) : data[j].url = u}}

\* The URLs within k links of the seed, over the pages scraped so far.
RECURSIVE ReachWithin(_)
ReachWithin(k) ==
  IF k = 0 THEN {start_url}
  ELSE LET r == ReachWithin(k - 1) IN r \cup UNION {LinksOf(u) : u \in r}

\* Link-distance of u from the seed; one more than the number of discovered
\* URLs when no chain of recorded links leads to u.
Dist(u) ==
  LET n == Cardinality(Discovered)
  IN IF u \in ReachWithin(n)
       THEN CHOOSE k \in 0..n :
              u \in ReachWithin(k) /\ (k = 0 \/ u \notin ReachWithin(k - 1))
     ELSE n + 1

\* C15: the fetch takes the head of pending; collecting a scraped page
\* appends, at the tail and in their recorded order, exactly its links that
\* are in neither visited nor pending (a failed page appends nothing); the
\* distance of a discovered URL never changes; pending is ordered by
\* distance; and no URL is fetched before a URL of smaller distance.
C15_FifoBreadthFirst ==
  /\ [][/\ (pc = "loop" /\ pc' = "scrape"
             => url' = Some(Head(to_visit)) /\ to_visit' = Tail(to_visit))
        /\ (pc = "collect" /\ page_data # None
             => to_visit' = to_visit \o
                  SelectSeq(page_data[1].internal_links,
                            LAMBDA l : l \notin visited /\ l \notin Range(to_visit)))
        /\ (pc = "collect" /\ page_data = None => to_visit' = to_visit)
        /\ (pc \notin {"loop", "collect"} => to_visit' = to_visit)
        /\ \A u \in Discovered : Dist(u)' = Dist(u)]_vars
  /\ [](/\ \A u \in Discovered : Dist(u) <= Cardinality(Discovered)
        /\ \A i, j \in 1..Len(to_visit) :
             i < j => Dist(to_visit[i]) <= Dist(to_visit[j])
        /\ \A v \in visited : \A q \in Range(to_visit) : Dist(v) <= Dist(q)
        /\ \A v \in visited : \A u \in Range(url) :
             pc \in {"scrape", "collect", "sleep"} => Dist(v) <= Dist(u))

\* C15 witness: a URL two links from the seed is about to be fetched after
\* two URLs one link from the seed were fetched.
C15_Witness ==
  /\ pc = "scrape"
  /\ Dist(url[1]) = 2
  /\ Cardinality({v \in Fetched : Dist(v) = 1}) >= 2

\* u is in canonical form: no fragment, and normalization leaves it as it is.
Canonical(u) == u.fragment = "" /\ normalize_url(u) = u

\* C16: every URL in visited or pending, the seed included, is in canonical
\* form, and no two visited URLs differ by their fragment only.
C16_FrontierCanonical ==
  /\ \A u \in visited \cup Range(to_visit) : Canonical(u)
  /\ \A u, v \in visited : [u EXCEPT !.fragment = ""] = [v EXCEPT !.fragment = ""]
                             => u = v

\* The internal links of the page at u: its hrefs resolved against u.
PageLinks(u) ==
  {n \in {ResolveAgainst(u, h) : h \in {g \in Document(site, u) : HrefConsidered(g)}} :
     is_internal_link(n)}

\* The least set holding r that is closed under the links of the pages
\* whose fetch succeeded.
RECURSIVE ReachableFrom(_)
ReachableFrom(r) ==
  LET next == r \cup UNION {PageLinks(u) :
                              u \in {v \in r : v \in DOMAIN outcomes /\ outcomes[v]}}
  IN IF next = r THEN r ELSE ReachableFrom(next)

\* C17: when an unbudgeted crawl returns without having been aborted,
\* visited is the set of URLs reachable from the seed through the internal
\* links of the pages fetched successfully.
C17_VisitedIsReachable ==
  CrawlReturned /\ max_pages = None /\ ~aborted =>
    visited = ReachableFrom({start_url})

\* C18: every fetch, successful or failed, is followed by the collect step
\* and then by time.sleep; the while test is reached only from the sleep (or
\* from the start of the crawl, before any fetch), and a fetch only from the
\* while test; so a sleep lies between any two consecutive fetches.
C18_DelayBetweenFetches ==
  /\ [][/\ (pc = "scrape" => pc' = "collect")
        /\ (pc = "collect" => pc' = "sleep")
        /\ (pc = "sleep" => pc' = IF delay >= 0 THEN "loop" ELSE "finally")
        /\ (pc' = "loop" => pc = "sleep" \/ (pc = "new_page" /\ visited = {}))
        /\ (pc' = "scrape" => pc = "loop")]_vars
  /\ [](pc = "scrape" => <>(pc = "sleep"))
  /\ [](pc = "sleep" => <>(pc \in {"loop", "finally"}))

\* C18 witness: after a failed fetch and a successful one, the next URL is
\* about to be fetched.
C18_Witness ==
  /\ pc = "scrape"
  /\ delay >= 0
  /\ errors # <<>>
  /\ data # <<>>

\* A URL without its fragment.
Defragmented(u) == [u EXCEPT !.fragment = ""]

\* C19: when both backends have run on the same seed and site with no
\* budget and no failed fetch, a page scraped by both has the same internal
\* links in its record and in its item, and both fetched the same URLs.
C19_VariantsAgree ==
  /\ pc = "exit" /\ engine = "closed"
  /\ max_pages = None /\ ~aborted
  /\ \A u \in DOMAIN outcomes : outcomes[u]
  => /\ \A i \in 1..Len(data) : \A j \in 1..Len(items) :
          data[i].url = items[j].url =>
            data[i].internal_links = items[j].internal_links
     /\ {Defragmented(u) : u \in visited} =
          {Defragmented(u) : u \in Range(downloads)}

\* The number of requests for the URL of fingerprint f handed to the downloader.
FetchCount(f) ==
  Cardinality({i \in 1..Len(downloads) : request_fingerprint(downloads[i]) = f})

\* C20: in the Scrapy run no URL is handed to the downloader twice, however
\* the parse callbacks in flight interleave: a request enters the scheduler
\* only in the step that finds its fingerprint unseen and marks it, the
\* scheduler never holds a URL twice or one already fetched, and when the
\* spider closes every URL discovered was fetched exactly once.
C20_OneFetchPerDiscoveredUrl ==
  /\ [](\A i \in 1..Len(downloads) : FetchCount(request_fingerprint(downloads[i])) = 1)
  /\ [](\A i, j \in 1..Len(scheduler) :
          request_fingerprint(scheduler[i]) = request_fingerprint(scheduler[j]) => i = j)
  /\ [](\A i \in 1..Len(scheduler) :
          /\ request_fingerprint(scheduler[i]) \in fingerprints
          /\ FetchCount(request_fingerprint(scheduler[i])) = 0)
  /\ [](engine = "closed" => \A f \in fingerprints : FetchCount(f) = 1)
  /\ [][Len(scheduler') > Len(scheduler)
          => /\ Len(scheduler') = Len(scheduler) + 1
             /\ request_fingerprint(scheduler'[Len(scheduler')]) \notin fingerprints
             /\ fingerprints' =
                  fingerprints \cup {request_fingerprint(scheduler'[Len(scheduler')])}]_vars

\* C20 witness: two parse callbacks are running whose pages both link to the
\* same URL; one has yielded its request, which is pending or downloading,
\* and the other is about to yield a request for it.
C20_Witness ==
  \E p, q \in parsing :
    /\ p.url # q.url
    /\ Head(q.follows) \in SpiderInternalLinks(p.url, Document(site, p.url))
    /\ Head(q.follows) \notin Range(p.follows)
    /\ Head(q.follows) \notin SpiderInternalLinks(start_url, Document(site, start_url))
    /\ Head(q.follows) \in Range(scheduler) \cup active

\* The place of x in a sequence that holds it once.
IndexIn(seq, x) == CHOOSE i \in 1..Len(seq) : seq[i] = x

\* C21: the follow requests a parse callback still has to yield come in the
\* order of the internal links recorded in the item of its page; that order
\* is sorted, so it is the same on every run.
C21_FollowOrderMatchesRecord ==
  \A p \in parsing : \A k \in 1..Len(items) :
    items[k].url = p.url =>
      \A i, j \in 1..Len(p.follows) :
        i < j => IndexIn(items[k].internal_links, p.follows[i])
                   < IndexIn(items[k].internal_links, p.follows[j])
====
